---- MODULE Spec2Model ----
\* Model of src/platform/linux/virtual_display.cpp (namespace VDISPLAY):
\* the driver lifecycle, the registry of virtual displays, the EVDI binding
\* and the watchdog thread, with the mutex and the threads' positions explicit.
EXTENDS Integers, Sequences, FiniteSets, TLC

\* ---------------------------------------------------------------------------
\* Bounds of the model
\* ---------------------------------------------------------------------------
\* number of hardware handles evdi.open can hand out at the same time
MaxHandles == 1
\* number of file descriptors ::open can hand out at the same time
MaxFds == 1

\* ---------------------------------------------------------------------------
\* Program constants
\* ---------------------------------------------------------------------------
\* for (int i = 0; i < 16; i++) in find_available_evdi_device
NumSlots == 16
\* length of uuid_t::string(): 8-4-4-4-12
GuidLen == 36
\* substr(0, 8) in generate_display_name
NamePrefixLen == 8
\* edid_size without / with the extension block
EdidBaseSize == 128
EdidExtSize == 256
\* thresholds of the edid_size test
MaxBaseWidth == 1920
MaxBaseHeight == 1080

\* ---------------------------------------------------------------------------
\* Threads
\* ---------------------------------------------------------------------------
\* the thread that drives the driver and the displays (session management)
Control == {"t1"}
\* the thread of the capture pipeline, which only asks about displays
Pipeline == {"t2"}
Callers == Control \cup Pipeline
WD == "wd"
NoThread == "none"

\* nullptr for evdi_handle; the handles evdi.open can return
NULL == 0
Handles == 1..MaxHandles
\* descriptors ::open can return (0..2 are the standard streams)
FdPool == 3..(2 + MaxFds)

\* ---------------------------------------------------------------------------
\* Strings are sequences of characters
\* ---------------------------------------------------------------------------
CharCode == [c \in {"-", "0", "1", "2", "A", "I", "L", "R", "T", "U", "V", "a", "b", "x"} |->
               CASE c = "-" -> 45 [] c = "0" -> 48 [] c = "1" -> 49
                 [] c = "2" -> 50 [] c = "A" -> 65 [] c = "I" -> 73
                 [] c = "L" -> 76 [] c = "R" -> 82 [] c = "T" -> 84
                 [] c = "U" -> 85 [] c = "V" -> 86 [] c = "a" -> 97
                 [] c = "b" -> 98 [] OTHER -> 120]

\* std::string operator< (lexicographic), used by std::map for its key order
RECURSIVE LexLess(_, _, _)
LexLess(a, b, i) ==
  IF i > Len(b) THEN FALSE
  ELSE IF i > Len(a) THEN TRUE
  ELSE IF a[i] = b[i] THEN LexLess(a, b, i + 1)
  ELSE CharCode[a[i]] < CharCode[b[i]]

StrLess(a, b) == LexLess(a, b, 1)

\* uuid_t::string(): hex digits in groups 8-4-4-4-12; p fills the first group
Guid(p, q) == [i \in 1..GuidLen |->
                 IF i \in {9, 14, 19, 24} THEN "-"
                 ELSE IF i <= NamePrefixLen THEN p ELSE q]

\* two GUIDs with the same first group, hence the same display name
GuidA == Guid("a", "1")
GuidB == Guid("a", "2")
Guids == {GuidA, GuidB}

EmptyString == << >>
VirtualTag == <<"V", "I", "R", "T", "U", "A", "L", "-">>

Min(a, b) == IF a < b THEN a ELSE b

\* std::string::substr(pos = 0, n)
Substr0(s, n) == SubSeq(s, 1, Min(n, Len(s)))

\* a name made of the whole GUID string
generate_display_name_whole(guid_str) == VirtualTag \o guid_str

\* "VIRTUAL-" + guid.string().substr(0, 8)
generate_display_name(guid_str) == VirtualTag \o Substr0(guid_str, NamePrefixLen)

\* display names a caller may pass: those of the GUIDs and one of no display
Names == {generate_display_name(g) : g \in Guids} \cup {<<"x">>}

\* (width, height, fps in mHz) requested by callers
Modes == {<<1920, 1080, 60000>>, <<3840, 2160, 60000>>}

\* a length that follows the width only
edid_size_by_width(width, height) ==
  IF width > MaxBaseWidth THEN EdidExtSize ELSE EdidBaseSize

\* edid_size = (width > 1920 || height > 1080) ? 256 : 128
edid_size(width, height) ==
  IF width > MaxBaseWidth \/ height > MaxBaseHeight THEN EdidExtSize ELSE EdidBaseSize

\* ---------------------------------------------------------------------------
\* The EDID synthesizer. A buffer is a function from offsets to bytes; an
\* assignment to an unsigned char keeps the low 8 bits.
\* ---------------------------------------------------------------------------
Byte(x) == x % 256

\* x >> n on an unsigned value
Shr(x, n) == x \div (2 ^ n)

\* a field of two 4-bit halves: (hi & 0x0F) << 4 | (lo & 0x0F)
Nibbles(hi, lo) == (hi % 16) * 16 + (lo % 16)

\* floor(a * n / d) without a product above 32 bits
MulDiv(a, n, d) == (a \div d) * n + ((a % d) * n) \div d

\* what a conversion of a negative double to uint32_t, which is undefined,
\* may leave in the 16 bits of pixel_clock
UndefinedClocks == {0, 4660, 65535}

\* the generic branch of create_detailed_timing_descriptor:
\*   h_period = (1000000.0 / refresh_rate - 550) / (height + 3)
\*   h_total = width + width * 0.15
\*   pixel_clock_khz = (uint32_t) ((h_total / h_period) * 1000)
\* that is width * (height + 3) * 23 * refresh_rate / (20000 - 11 * refresh_rate),
\* computed here as an exact fraction, so the result can differ from the one
\* in doubles where the fraction is within rounding distance of a whole
\* number. refresh_rate = 0 gives an infinite period and clock 0; from 1819 Hz
\* the period is negative and the conversion undefined. The uint16_t
\* pixel_clock = pixel_clock_khz / 10 is what is returned.
GenericPixelClock(width, height, refresh_rate) ==
  IF refresh_rate = 0 THEN {0}
  ELSE IF 20000 - 11 * refresh_rate <= 0 THEN UndefinedClocks
  ELSE {(MulDiv(width * (height + 3), 23 * refresh_rate, 20000 - 11 * refresh_rate)
           \div 10) % 65536}

\* the timing parameters chosen by create_detailed_timing_descriptor
Timing(h_blank, v_blank, h_front, h_sync, v_front, v_sync, pixel_clock) ==
  [h_blank |-> h_blank, v_blank |-> v_blank, h_front |-> h_front,
   h_sync |-> h_sync, v_front |-> v_front, v_sync |-> v_sync,
   pixel_clock |-> pixel_clock]

Timings(width, height, refresh_rate) ==
  IF width = 3840 /\ height = 2160
    THEN {Timing(560, 90, 176, 88, 8, 10, (533250 \div 10) % 65536)}
  ELSE IF width = 2560 /\ height = 1440
    THEN {Timing(160, 44, 48, 32, 3, 5, (241500 \div 10) % 65536)}
  ELSE IF width = 1920 /\ height = 1080
    THEN {Timing(280, 45, 88, 44, 4, 5, (148500 \div 10) % 65536)}
  ELSE IF width = 1280 /\ height = 720
    THEN {Timing(370, 30, 110, 40, 5, 5, (74250 \div 10) % 65536)}
  ELSE LET h_blank == (width * 15) \div 100
       IN {Timing(h_blank, 45, h_blank \div 4, h_blank \div 4, 3, 5, clock) :
             clock \in GenericPixelClock(width, height, refresh_rate)}

\* the 18 bytes written for one choice of timing parameters
DtdBytes(width, height, tm) ==
  LET h_size_mm == (width * 600) \div 3840
      v_size_mm == (height * 340) \div 2160
  IN [i \in 0..17 |->
        CASE i = 0 -> Byte(tm.pixel_clock)
          [] i = 1 -> Byte(Shr(tm.pixel_clock, 8))
          [] i = 2 -> Byte(width)
          [] i = 3 -> Byte(tm.h_blank)
          [] i = 4 -> Nibbles(Shr(width, 8), Shr(tm.h_blank, 8))
          [] i = 5 -> Byte(height)
          [] i = 6 -> Byte(tm.v_blank)
          [] i = 7 -> Nibbles(Shr(height, 8), Shr(tm.v_blank, 8))
          [] i = 8 -> Byte(tm.h_front)
          [] i = 9 -> Byte(tm.h_sync)
          [] i = 10 -> Nibbles(tm.v_front, tm.v_sync)
          [] i = 11 -> (Shr(tm.h_front, 8) % 4) * 64 + (Shr(tm.h_sync, 8) % 4) * 16
                       + (Shr(tm.v_front, 4) % 4) * 4 + (Shr(tm.v_sync, 4) % 4)
          [] i = 12 -> Byte(h_size_mm)
          [] i = 13 -> Byte(v_size_mm)
          [] i = 14 -> Nibbles(Shr(h_size_mm, 8), Shr(v_size_mm, 8))
          [] i = 17 -> 30
          [] OTHER -> 0]

\* the descriptors create_detailed_timing_descriptor can write
create_detailed_timing_descriptor(width, height, refresh_rate) ==
  {DtdBytes(width, height, tm) : tm \in Timings(width, height, refresh_rate)}

\* checksum += edid[i] for the n bytes from first; checksum is a uint8_t, so
\* it is in 0..255 after every addition
RECURSIVE SumBytes(_, _, _, _)
SumBytes(edid, first, n, checksum) ==
  IF n = 0 \/ checksum \notin 0..255 THEN checksum
  ELSE SumBytes(edid, first + 1, n - 1, (checksum + edid[first]) % 256)

\* a checksum byte that is the complement of the sum
calculate_edid_checksum_complement(edid, first, block_size) ==
  [edid EXCEPT ![first + block_size - 1] =
     Byte(255 - SumBytes(edid, first, block_size - 1, 0))]

\* calculate_edid_checksum on the block that starts at offset first
calculate_edid_checksum(edid, first, block_size) ==
  [edid EXCEPT ![first + block_size - 1] =
     Byte(256 - SumBytes(edid, first, block_size - 1, 0))]

\* edid[0..53]: header, vendor and product, version, display parameters,
\* chromaticity, established and standard timings
EdidHead ==
  <<0, 255, 255, 255, 255, 255, 255, 0,  6, 76,  1, 0,  1, 0, 0, 0,  1, 34,
    1, 4,  181,  60, 34,  120,  58,
    252, 129, 164, 85, 77, 157, 37, 18, 80, 84,  33, 8, 0,
    209, 192, 179, 0, 169, 192, 129, 128, 129, 192, 1, 1, 1, 1, 1, 1>>

\* edid[72..89]: the display name "APOLLO VDISP" and a newline
NameDescriptor ==
  <<0, 0, 0, 252, 0,  65, 80, 79, 76, 76, 79, 32, 86, 68, 73, 83, 80,  10>>

\* edid[90..107]: the range limits
RangeDescriptor ==
  <<0, 0, 0, 253, 0,  24, 120, 15, 160, 120, 0, 10,  32, 32, 32, 32, 32, 32>>

\* edid[108..125]: the unused descriptor
DummyDescriptor ==
  <<0, 0, 0, 16, 0,  32, 32, 32, 32, 32, 32, 32, 32, 32, 32, 32, 32, 32>>

\* edid[128..147]: the head of the CEA-861 block and its data blocks
ExtensionHead ==
  <<2, 3, 24, 114,  71, 144, 4, 3, 95, 96, 97, 101,  103, 3, 12, 0, 16, 0, 0, 120>>

\* bool needs_extension = (width > 1920 || height > 1080)
needs_extension(width, height) == width > MaxBaseWidth \/ height > MaxBaseHeight

\* block 0 before its checksum, on the buffer cleared by memset
BaseBlock(width, height, dtd) ==
  [i \in 0..(EdidExtSize - 1) |->
     IF i < 54 THEN EdidHead[i + 1]
     ELSE IF i < 72 THEN dtd[i - 54]
     ELSE IF i < 90 THEN NameDescriptor[i - 71]
     ELSE IF i < 108 THEN RangeDescriptor[i - 89]
     ELSE IF i < 126 THEN DummyDescriptor[i - 107]
     ELSE IF i = 126 THEN (IF needs_extension(width, height) THEN 1 ELSE 0)
     ELSE 0]

\* block 1 before its checksum, written over edid
ExtensionBlock(edid, width, dtd4k) ==
  [i \in DOMAIN edid |->
     IF i >= 128 /\ i < 148 THEN ExtensionHead[i - 127]
     ELSE IF width >= 3840 /\ i >= 152 /\ i < 170 THEN dtd4k[i - 152]
     ELSE edid[i]]

\* the buffers generate_edid_for_resolution can return
generate_edid_for_resolution(width, height, refresh_rate) ==
  {LET base == calculate_edid_checksum(BaseBlock(width, height, dtd), 0, EdidBaseSize)
   IN IF needs_extension(width, height)
        THEN calculate_edid_checksum(ExtensionBlock(base, width, dtd4k),
                                     EdidBaseSize, EdidBaseSize)
        ELSE base :
     dtd \in create_detailed_timing_descriptor(width, height, refresh_rate),
     dtd4k \in create_detailed_timing_descriptor(3840, 2160, 60)}

\* uint32_t fps_hz = fps / 1000 and int refresh_hz = refresh_rate / 1000
ToHz(fps) == fps \div 1000

\* the buffers generate_edid_for_resolution can leave for each mode a caller
\* asks for
ModeEdids ==
  [mode \in Modes |-> generate_edid_for_resolution(mode[1], mode[2], ToHz(mode[3]))]

\* a synthesizer that leaves the static buffer as it was
EdidStale(old, new) == old

\* memset(edid, 0, sizeof(edid)) and the writes that follow it: the static
\* buffer holds what this call has synthesized
EdidWritten(old, new) == new

\* ---------------------------------------------------------------------------
\* The EVDI library as the code sees it
\* ---------------------------------------------------------------------------
\* What the kernel answers during one scan of the slots: status[i] is the
\* result of check_device(i), add[i] the result of the add_device() call made
\* while the scan is at slot i.
SlotRange == 0..(NumSlots - 1)

Scenario(status, add) == [status |-> status, add |-> add]

SlotScenarios ==
  { Scenario([i \in SlotRange |-> "UNRECOGNIZED"], [i \in SlotRange |-> -1]),
    Scenario([i \in SlotRange |-> "NOT_PRESENT"], [i \in SlotRange |-> -1]),
    Scenario([i \in SlotRange |-> "AVAILABLE"], [i \in SlotRange |-> -1]),
    Scenario([i \in SlotRange |-> IF i = 0 THEN "UNRECOGNIZED" ELSE "AVAILABLE"],
             [i \in SlotRange |-> -1]),
    Scenario([i \in SlotRange |-> "NOT_PRESENT"], [i \in SlotRange |-> 1]) }

\* a call through the function table: <<function, argument, result or length>>
Call(fn, arg, res) == <<fn, arg, res>>

\* find_available_evdi_device, from slot i on: the device it returns and the
\* calls it makes
RECURSIVE ScanSlots(_, _, _)
ScanSlots(i, sc, calls) ==
  IF i >= NumSlots THEN [device |-> -1, calls |-> calls]
  ELSE LET status == sc.status[i]
           checked == Append(calls, Call("check_device", i, status))
       IN IF status = "AVAILABLE" THEN [device |-> i, calls |-> checked]
          ELSE IF status = "NOT_PRESENT"
            THEN LET result == sc.add[i]
                     added == Append(checked, Call("add_device", i, result))
                 IN IF result >= 0 THEN [device |-> result, calls |-> added]
                    ELSE ScanSlots(i + 1, sc, added)
            ELSE ScanSlots(i + 1, sc, checked)

find_available_evdi_device(sc) == ScanSlots(0, sc, << >>)

\* the calls that take an evdi_handle
HandleCalls == {"connect", "disconnect", "close", "get_event_ready"}

\* Effect of a sequence of calls on the open handles and the open
\* descriptors; misuse records a call that was given a handle that is not
\* open, fdMisuse a ::close of a descriptor that is not open.
RECURSIVE ApplyCalls(_, _, _, _, _)
ApplyCalls(open, fds, calls, misuse, fdMisuse) ==
  IF calls = << >>
    THEN [open |-> open, fds |-> fds, misuse |-> misuse, fdMisuse |-> fdMisuse]
  ELSE LET c == Head(calls)
           nxt == IF c[1] = "open" /\ c[3] # NULL THEN open \cup {c[3]}
                  ELSE IF c[1] = "close" THEN open \ {c[2]}
                  ELSE open
           nfd == IF c[1] = "::open" /\ c[3] >= 0 THEN fds \cup {c[3]}
                  ELSE IF c[1] = "::close" THEN fds \ {c[2]}
                  ELSE fds
       IN ApplyCalls(nxt, nfd, Tail(calls),
                     misuse \/ (c[1] \in HandleCalls /\ c[2] \notin open),
                     fdMisuse \/ (c[1] = "::close" /\ c[2] \notin fds))

\* what evdi.open may return: nullptr, or a handle that is not open
OpenResults(open) == {NULL} \cup (Handles \ open)

\* what ::open may return: -1, or the lowest free descriptor
LowestFree(fds) == CHOOSE f \in FdPool \ fds : \A g \in FdPool \ fds : f <= g
FdResults(fds) == IF FdPool \ fds = {} THEN {-1} ELSE {-1, LowestFree(fds)}

\* ---------------------------------------------------------------------------
\* std::map<std::string, VirtualDisplayInfo>
\* ---------------------------------------------------------------------------
EmptyMap == << >>

\* operator[] followed by assignment: inserts or overwrites
MapAssign(m, k, v) == [x \in DOMAIN m \cup {k} |-> IF x = k THEN v ELSE m[x]]

\* an erase that leaves the entry in the map
MapEraseKept(m, k) == m

\* erase(it)
MapErase(m, k) == [x \in DOMAIN m \ {k} |-> m[x]]

\* the keys in iteration order (ascending)
RECURSIVE SortKeys(_)
SortKeys(S) ==
  IF S = {} THEN << >>
  ELSE LET k == CHOOSE x \in S : \A y \in S : x = y \/ StrLess(x, y)
       IN <<k>> \o SortKeys(S \ {k})

\* every string that is used as a key, in ascending order
KeyOrder == SortKeys(Guids \cup Names)

\* the keys of m in iteration order: std::map iterates in ascending key order
MapOrder(m) == SelectSeq(KeyOrder, LAMBDA k : k \in DOMAIN m)

\* ---------------------------------------------------------------------------
\* State
\* ---------------------------------------------------------------------------
VARIABLES
  driver_status,     \* static DRIVER_STATUS driver_status
  evdi_available,    \* static bool evdi_available
  evdi,              \* the function table: lib_handle (non-null?) and loaded
  watchdog_running,  \* std::atomic<bool> watchdog_running
  watchdog_thread,   \* std::thread watchdog_thread: the position of its function
  failCb_calls,      \* how often the function of watchdog_thread has called failCb
  virtual_displays,  \* the registry
  vdisplay_mutex,    \* the thread that holds the mutex
  pc,                \* position of every caller thread
  open_handles,      \* handles opened by evdi.open and not closed
  open_fds,          \* descriptors opened by ::open and not closed
  edid_static,       \* static unsigned char edid[256] of generate_edid_for_resolution
  last               \* what the last step did: operation, result, calls made

vars == <<driver_status, evdi_available, evdi, watchdog_running, watchdog_thread,
          failCb_calls, virtual_displays, vdisplay_mutex, pc, open_handles, open_fds,
          edid_static, last>>

\* the observation of a step that does nothing but move a thread
Blank(op, t) ==
  [op |-> op, t |-> t, holder |-> vdisplay_mutex, touch |-> FALSE,
   pre |-> driver_status, arg |-> << >>, ret |-> << >>, calls |-> << >>,
   misuse |-> FALSE, fdMisuse |-> FALSE, lib |-> "none", mod |-> "none",
   cb |-> "none", dlclose |-> FALSE]

Init ==
  /\ driver_status = "UNKNOWN"
  /\ evdi_available = FALSE
  /\ evdi = [lib_handle |-> FALSE, loaded |-> FALSE]
  /\ watchdog_running = FALSE
  /\ watchdog_thread = "none"
  /\ failCb_calls = 0
  /\ virtual_displays = EmptyMap
  /\ vdisplay_mutex = NoThread
  /\ pc = [t \in Callers |-> "idle"]
  /\ open_handles = {}
  /\ open_fds = {}
  /\ edid_static = [i \in 0..(EdidExtSize - 1) |-> 0]
  /\ last = [op |-> "init", t |-> NoThread, holder |-> NoThread, touch |-> FALSE,
             pre |-> "UNKNOWN", arg |-> << >>, ret |-> << >>, calls |-> << >>,
             misuse |-> FALSE, fdMisuse |-> FALSE, lib |-> "none", mod |-> "none",
             cb |-> "none", dlclose |-> FALSE]

\* the records of the registry
Records == {virtual_displays[k] : k \in DOMAIN virtual_displays}

\* ---------------------------------------------------------------------------
\* std::lock_guard<std::mutex> lock(vdisplay_mutex) as the first statement of
\* an operation: the operation runs from the moment the caller owns the mutex
\* to the release at its return, so it is one step that needs the mutex free.
\* ---------------------------------------------------------------------------
Enter(t) == pc[t] = "idle" /\ vdisplay_mutex = NoThread

\* the observation of a step taken by t while it owns the mutex
Locked(op, t) == [op |-> op, t |-> t, holder |-> t, touch |-> TRUE,
                  pre |-> driver_status, arg |-> << >>, ret |-> << >>,
                  calls |-> << >>, misuse |-> FALSE, fdMisuse |-> FALSE,
                  lib |-> "none", mod |-> "none", cb |-> "none",
                  dlclose |-> FALSE]

\* ---------------------------------------------------------------------------
\* openVDisplayDevice
\* ---------------------------------------------------------------------------
LoadOutcomes == {"nolib", "nosym", "ok"}

\* a loader that returns false with the library still open
MissingSymbolKept(e) ==
  [evdi |-> [e EXCEPT !.lib_handle = TRUE], ok |-> FALSE, lib |-> "nosym",
   dlclose |-> FALSE]

\* LOAD_EVDI_FUNC when dlsym returns null: dlclose(evdi.lib_handle),
\* evdi.lib_handle = nullptr, return false
MissingSymbol(e) ==
  [evdi |-> [e EXCEPT !.lib_handle = FALSE], ok |-> FALSE, lib |-> "nosym",
   dlclose |-> TRUE]

\* a loader that returns true without setting evdi.loaded
ResolvedUnmarked(e) ==
  [evdi |-> [lib_handle |-> TRUE, loaded |-> FALSE], ok |-> TRUE, lib |-> "ok",
   dlclose |-> FALSE]

\* every symbol was found: evdi.loaded = true; return true
Resolved(e) ==
  [evdi |-> [lib_handle |-> TRUE, loaded |-> TRUE], ok |-> TRUE, lib |-> "ok",
   dlclose |-> FALSE]

\* load_evdi_library: outcome says what dlopen and dlsym find
load_evdi_library(e, outcome) ==
  IF e.loaded THEN [evdi |-> e, ok |-> TRUE, lib |-> "cached", dlclose |-> FALSE]
  ELSE IF outcome = "nolib"
    THEN [evdi |-> [e EXCEPT !.lib_handle = FALSE], ok |-> FALSE, lib |-> outcome,
          dlclose |-> FALSE]
  ELSE IF outcome = "nosym" THEN MissingSymbol(e)
  ELSE Resolved(e)

\* an open that never takes the early return
AlreadyOpenNever(status) == FALSE

\* if (driver_status == DRIVER_STATUS::OK) return driver_status;
AlreadyOpen(status) == status = "OK"

\* a hardware mode that ignores the kernel-module check
HardwareModeNoModule(loaded, module) == loaded

\* evdi_available after load_evdi_library and check_evdi_module_loaded
HardwareMode(loaded, module) == loaded /\ module

\* The callers whose unlocked read of evdi_available in isEvdiDisplay races
\* the writes of this openVDisplayDevice and reads true.
Racers(t) == SUBSET {u \in Pipeline \ {t} : pc[u] = "idle"}

OpenDriver(t) ==
  /\ Enter(t)
  /\ \E outcome \in LoadOutcomes, module \in BOOLEAN, racers \in Racers(t) :
       LET ld == load_evdi_library(evdi, outcome) IN
       IF AlreadyOpen(driver_status)
         THEN /\ last' = [Locked("openVDisplayDevice", t) EXCEPT !.ret = driver_status]
              /\ UNCHANGED <<driver_status, evdi_available, evdi, pc>>
         ELSE /\ evdi' = ld.evdi
              /\ evdi_available' = HardwareMode(ld.ok, module)
              /\ driver_status' = "OK"
              /\ pc' = [u \in Callers |->
                          IF u \in racers THEN "isEvdiDisplay_lock" ELSE pc[u]]
              /\ last' = [Locked("openVDisplayDevice", t) EXCEPT
                            !.ret = "OK", !.lib = ld.lib, !.dlclose = ld.dlclose,
                            !.mod = IF ld.ok THEN (IF module THEN "present" ELSE "absent")
                                    ELSE "none"]
  /\ UNCHANGED <<failCb_calls, watchdog_running, watchdog_thread, virtual_displays,
                 vdisplay_mutex, open_handles, open_fds>>
  /\ UNCHANGED edid_static

\* ---------------------------------------------------------------------------
\* closeVDisplayDevice
\* ---------------------------------------------------------------------------
\* a teardown that closes the handle before it disconnects it
HandleTeardownCloseFirst(v) ==
  IF v.using_evdi /\ v.handle # NULL
    THEN <<Call("close", v.handle, 0), Call("disconnect", v.handle, 0)>>
    ELSE << >>

\* disconnect and close of one record's handle
HandleTeardown(v) ==
  IF v.using_evdi /\ v.handle # NULL
    THEN <<Call("disconnect", v.handle, 0), Call("close", v.handle, 0)>>
    ELSE << >>

\* ::close of one record's descriptor
FdTeardown(v) == IF v.drm_fd >= 0 THEN <<Call("::close", v.drm_fd, 0)>> ELSE << >>

\* the clean-up loop of closeVDisplayDevice over the records in map order
RECURSIVE CleanupCalls(_, _)
CleanupCalls(keys, m) ==
  IF keys = << >> THEN << >>
  ELSE (IF m[Head(keys)].active
          THEN HandleTeardown(m[Head(keys)]) \o FdTeardown(m[Head(keys)])
          ELSE << >>)
         \o CleanupCalls(Tail(keys), m)

\* unload_evdi_library, which calls dlclose if (evdi.lib_handle)
unload_evdi_library(e) == [lib_handle |-> FALSE, loaded |-> FALSE]

\* the lock_guard and watchdog_running = false
CloseStop(t) ==
  /\ Enter(t)
  /\ vdisplay_mutex' = t
  /\ watchdog_running' = FALSE
  /\ pc' = [pc EXCEPT ![t] = "close_join"]
  /\ last' = [Blank("close_stop", t) EXCEPT !.holder = t]
  /\ UNCHANGED <<failCb_calls, driver_status, evdi_available, evdi, watchdog_thread,
                 virtual_displays, open_handles, open_fds>>
  /\ UNCHANGED edid_static

\* a thread object that was started and not yet joined
Joinable(th) == th # "none"

\* if (watchdog_thread.joinable()) watchdog_thread.join();
\* join returns once the thread function has returned
JoinReturns(th) == Joinable(th) => th = "exited"

\* a close that leaves the records in the registry
ClearKept(m) == m

\* virtual_displays.clear()
Clear(m) == EmptyMap

\* the join, the clean-up loop, clear(), unload_evdi_library(),
\* driver_status = UNKNOWN and the release of the mutex
CloseDriver(t) ==
  /\ pc[t] = "close_join"
  /\ JoinReturns(watchdog_thread)
  /\ watchdog_thread' = IF watchdog_thread = "exited" THEN "none" ELSE watchdog_thread
  /\ LET calls == CleanupCalls(MapOrder(virtual_displays), virtual_displays)
         hw == ApplyCalls(open_handles, open_fds, calls, FALSE, FALSE)
     IN /\ open_handles' = hw.open
        /\ open_fds' = hw.fds
        /\ last' = [Locked("closeVDisplayDevice", t) EXCEPT
                      !.calls = calls, !.misuse = hw.misuse, !.fdMisuse = hw.fdMisuse,
                      !.dlclose = evdi.lib_handle]
  /\ virtual_displays' = Clear(virtual_displays)
  /\ evdi' = unload_evdi_library(evdi)
  /\ driver_status' = "UNKNOWN"
  /\ vdisplay_mutex' = NoThread
  /\ pc' = [pc EXCEPT ![t] = "idle"]
  /\ failCb_calls' = 0
  /\ UNCHANGED <<evdi_available, watchdog_running>>
  /\ UNCHANGED edid_static

\* ---------------------------------------------------------------------------
\* startPingThread and the watchdog thread
\* ---------------------------------------------------------------------------
\* a start that does not look at the flag
AlreadyRunningNever(running) == FALSE

\* if (watchdog_running) return true;
AlreadyRunning(running) == running

StartPingThread(t) ==
  /\ Enter(t)
  /\ IF AlreadyRunning(watchdog_running)
       THEN UNCHANGED <<watchdog_running, watchdog_thread, failCb_calls>>
       ELSE /\ watchdog_running' = TRUE
            /\ watchdog_thread' = "while"
            /\ failCb_calls' = 0
  /\ last' = [Locked("startPingThread", t) EXCEPT !.touch = FALSE, !.ret = TRUE]
  /\ UNCHANGED <<driver_status, evdi_available, evdi, virtual_displays,
                 vdisplay_mutex, pc, open_handles, open_fds>>
  /\ UNCHANGED edid_static

\* while (watchdog_running) { std::this_thread::sleep_for(5s);
WdWhile ==
  /\ watchdog_thread = "while"
  /\ watchdog_thread' = IF watchdog_running THEN "sleep" ELSE "exited"
  /\ last' = Blank("wd_while", WD)
  /\ UNCHANGED <<failCb_calls, driver_status, evdi_available, evdi, watchdog_running,
                 virtual_displays, vdisplay_mutex, pc, open_handles, open_fds>>
  /\ UNCHANGED edid_static

\* the sleep is over: if (!watchdog_running) break;
WdWake ==
  /\ watchdog_thread = "sleep"
  /\ watchdog_thread' = IF watchdog_running THEN "lock" ELSE "exited"
  /\ last' = Blank("wd_wake", WD)
  /\ UNCHANGED <<failCb_calls, driver_status, evdi_available, evdi, watchdog_running,
                 virtual_displays, vdisplay_mutex, pc, open_handles, open_fds>>
  /\ UNCHANGED edid_static

\* a scan that asks for every active record
PolledIfActive(v) == v.active

\* if (vdinfo.active && vdinfo.using_evdi && vdinfo.handle)
Polled(v) == v.active /\ v.using_evdi /\ v.handle # NULL

\* the for loop of the watchdog: get_event_ready on each polled record, in map
\* order, up to the first negative answer; dead are the handles that answer < 0
RECURSIVE ScanLiveness(_, _, _, _)
ScanLiveness(keys, m, dead, calls) ==
  IF keys = << >> THEN [lost |-> FALSE, calls |-> calls]
  ELSE LET v == m[Head(keys)] IN
       IF Polled(v)
         THEN LET ready == IF v.handle \in dead THEN -1 ELSE 0
                  polled == Append(calls, Call("get_event_ready", v.handle, ready))
              IN IF ready < 0 THEN [lost |-> TRUE, calls |-> polled]
                 ELSE ScanLiveness(Tail(keys), m, dead, polled)
         ELSE ScanLiveness(Tail(keys), m, dead, calls)

\* a loop that goes on after a lost display
AfterLossContinues == "while"

\* return; after the lost display was logged and failCb, if any, was called
AfterLoss == "exited"

\* a watchdog that records the loss in driver_status
StatusAfterScanFailed(status, lost) == IF lost THEN "WATCHDOG_FAILED" ELSE status

\* driver_status after a scan: the thread function never assigns it
StatusAfterScan(status, lost) == status

\* a thread function that clears the flag before it returns on a loss
RunningAfterLossCleared(running) == FALSE

\* watchdog_running at the return; after a loss: the lambda does not write it
RunningAfterLoss(running) == running

\* a watchdog that lets go of the mutex before it calls failCb
CallbackHolderNone == NoThread

\* failCb() is called inside the block of the lock_guard
CallbackHolder == WD

\* the positions of the thread function inside failCb()
InCallback == {"failCb", "failCb_lock"}

\* the lock_guard in the loop body and one scan; dead are the handles that
\* answer below zero. if (failCb) is evaluated on loss only: failCb, when the
\* caller of startPingThread gave one (hasCb), is called with the mutex held,
\* and then the thread function returns
WdScan ==
  /\ watchdog_thread = "lock"
  /\ vdisplay_mutex = NoThread
  /\ \E dead \in SUBSET {v.handle : v \in {r \in Records : Polled(r)}} :
     LET sc == ScanLiveness(MapOrder(virtual_displays), virtual_displays, dead, << >>)
         hw == ApplyCalls(open_handles, open_fds, sc.calls, FALSE, FALSE)
     IN \E hasCb \in IF sc.lost THEN BOOLEAN ELSE {FALSE} :
       LET calling == sc.lost /\ hasCb
       IN /\ watchdog_thread' = IF calling THEN "failCb"
                                ELSE IF sc.lost THEN AfterLoss ELSE "while"
          /\ vdisplay_mutex' = IF calling THEN CallbackHolder ELSE NoThread
          /\ failCb_calls' = IF calling THEN failCb_calls + 1 ELSE failCb_calls
          /\ last' = [Locked("wd_scan", WD) EXCEPT
                        !.calls = sc.calls, !.misuse = hw.misuse, !.fdMisuse = hw.fdMisuse,
                        !.ret = sc.lost,
                        !.cb = IF calling THEN "called"
                               ELSE IF sc.lost THEN "null" ELSE "none"]
          /\ driver_status' = StatusAfterScan(driver_status, sc.lost)
          /\ watchdog_running' = IF sc.lost /\ ~calling
                                   THEN RunningAfterLoss(watchdog_running)
                                   ELSE watchdog_running
  /\ UNCHANGED <<evdi_available, evdi,
                 virtual_displays, pc, open_handles, open_fds>>
  /\ UNCHANGED edid_static

\* failCb() returns; return from the thread function releases the mutex
WdCallbackReturn ==
  /\ watchdog_thread = "failCb"
  /\ watchdog_thread' = AfterLoss
  /\ vdisplay_mutex' = NoThread
  /\ last' = Blank("wd_return", WD)
  /\ watchdog_running' = RunningAfterLoss(watchdog_running)
  /\ UNCHANGED <<failCb_calls, driver_status, evdi_available, evdi,
                 virtual_displays, pc, open_handles, open_fds>>
  /\ UNCHANGED edid_static

\* failCb() calls an operation that begins with the lock_guard of
\* vdisplay_mutex: the call waits in the constructor of the lock_guard for
\* the mutex, which only the return of this thread function releases; the
\* thread has no further step
WdCallbackBlocks ==
  /\ watchdog_thread = "failCb"
  /\ vdisplay_mutex # NoThread
  /\ watchdog_thread' = "failCb_lock"
  /\ last' = Blank("wd_callback_lock", WD)
  /\ UNCHANGED <<failCb_calls, driver_status, evdi_available, evdi, watchdog_running,
                 virtual_displays, vdisplay_mutex, pc, open_handles, open_fds>>
  /\ UNCHANGED edid_static

\* ---------------------------------------------------------------------------
\* createVirtualDisplay
\* ---------------------------------------------------------------------------
\* a create that does not look at the driver status
CreateRefusesNever(status) == FALSE

\* if (driver_status != DRIVER_STATUS::OK) return "";
CreateRefuses(status) == status # "OK"

\* a create that always tries the hardware path
UseHardwareAlways(available) == TRUE

\* if (evdi_available)
UseHardware(available) == available

\* a test that takes the record for connected whatever evdi.open returned
HandleValidAlways(handle) == TRUE

\* if (handle)
HandleValid(handle) == handle # NULL

\* a registry keyed by the display name
RegistryKeyByName(guid_str, display_name) == display_name

\* virtual_displays[guid_str]
RegistryKey(guid_str, display_name) == guid_str

\* the VirtualDisplayInfo as initialised before the hardware path
NewRecord(display_name, guid_str, mode) ==
  [name |-> display_name, guid_str |-> guid_str,
   width |-> mode[1], height |-> mode[2], fps |-> mode[3],
   device_index |-> -1, handle |-> NULL, drm_fd |-> -1,
   active |-> TRUE, using_evdi |-> FALSE]

\* the assignments after evdi.connect
HardwareRecord(v, device, handle, fd) ==
  [v EXCEPT !.device_index = device, !.handle = handle,
            !.using_evdi = TRUE, !.drm_fd = fd]

\* the scans of find_available_evdi_device the environment can produce
SlotScans == {find_available_evdi_device(sc) : sc \in SlotScenarios}

\* What the environment answers during one createVirtualDisplay: the slot
\* scan, the result of evdi.open (asked only when the scan found a device) and
\* the result of ::open of the device node (asked only when open succeeded).
CreateEnv(hwPath) ==
  IF hwPath
    THEN {<<scan, NULL, -1>> : scan \in SlotScans}
         \cup {<<scan, h, fd>> : scan \in {x \in SlotScans : x.device >= 0},
                                 h \in OpenResults(open_handles) \ {NULL},
                                 fd \in FdResults(open_fds)}
    ELSE {<<[device |-> -1, calls |-> << >>], NULL, -1>>}

\* a create that reports failure when it could not attach a device
CreateResultAttachedOnly(display_name, attached) ==
  IF attached THEN display_name ELSE EmptyString

\* return display_name; whether or not a device was attached
CreateResult(display_name, attached) == display_name

\* createVirtualDisplay(s_client_uid, s_client_name, width, height, fps, guid);
\* the two client strings are only written to the log
CreateDisplay(t) ==
  /\ Enter(t)
  /\ IF CreateRefuses(driver_status)
       THEN /\ \E g \in Guids :
                 last' = [Locked("createVirtualDisplay", t) EXCEPT
                            !.arg = g, !.ret = EmptyString]
            /\ UNCHANGED <<virtual_displays, open_handles, open_fds, edid_static>>
       ELSE \E g \in Guids, mode \in Modes, env \in CreateEnv(UseHardware(evdi_available)) :
            \E edid \in ModeEdids[mode] :
              LET display_name == generate_display_name(g)
                  base == NewRecord(display_name, g, mode)
                  hwPath == UseHardware(evdi_available)
                  scan == env[1]
                  opened == hwPath /\ scan.device >= 0
                  handle == IF opened THEN env[2] ELSE NULL
                  attached == opened /\ HandleValid(handle)
                  fd == env[3]
                  \* the calls after the scan; the scan's own calls take no
                  \* handle and no descriptor
                  attach == (IF opened THEN <<Call("open", scan.device, handle)>>
                             ELSE << >>)
                            \o (IF attached
                                  THEN <<Call("connect", handle, edid_size(mode[1], mode[2])),
                                         Call("::open", scan.device, fd)>>
                                  ELSE << >>)
                  calls == scan.calls \o attach
                  vdinfo == IF attached THEN HardwareRecord(base, scan.device, handle, fd)
                            ELSE base
                  hw == ApplyCalls(open_handles, open_fds, attach, FALSE, FALSE)
              IN /\ virtual_displays' =
                      MapAssign(virtual_displays, RegistryKey(g, display_name), vdinfo)
                 /\ open_handles' = hw.open
                 /\ open_fds' = hw.fds
                 /\ edid_static' = IF attached THEN EdidWritten(edid_static, edid)
                                    ELSE edid_static
                 /\ last' = [Locked("createVirtualDisplay", t) EXCEPT
                               !.arg = g, !.ret = CreateResult(display_name, attached),
                               !.calls = calls, !.misuse = hw.misuse, !.fdMisuse = hw.fdMisuse]
  /\ UNCHANGED <<failCb_calls, driver_status, evdi_available, evdi, watchdog_running,
                 watchdog_thread, vdisplay_mutex, pc>>

\* ---------------------------------------------------------------------------
\* removeVirtualDisplay
\* ---------------------------------------------------------------------------
\* a remove that reports success although it found nothing
RemoveMissResultSuccess == TRUE

\* return false; after find() == end()
RemoveMissResult == FALSE

RemoveDisplay(t) ==
  /\ Enter(t)
  /\ \E g \in Guids :
       IF g \notin DOMAIN virtual_displays
         THEN /\ last' = [Locked("removeVirtualDisplay", t) EXCEPT
                            !.arg = g, !.ret = RemoveMissResult]
              /\ UNCHANGED <<virtual_displays, open_handles, open_fds>>
         ELSE LET vdinfo == virtual_displays[g]
                  calls == HandleTeardown(vdinfo) \o FdTeardown(vdinfo)
                  hw == ApplyCalls(open_handles, open_fds, calls, FALSE, FALSE)
              IN /\ virtual_displays' = MapErase(virtual_displays, g)
                 /\ open_handles' = hw.open
                 /\ open_fds' = hw.fds
                 /\ last' = [Locked("removeVirtualDisplay", t) EXCEPT
                            !.arg = g, !.ret = TRUE,
                               !.calls = calls, !.misuse = hw.misuse, !.fdMisuse = hw.fdMisuse]
  /\ UNCHANGED <<failCb_calls, driver_status, evdi_available, evdi, watchdog_running,
                 watchdog_thread, vdisplay_mutex, pc>>
  /\ UNCHANGED edid_static

\* ---------------------------------------------------------------------------
\* changeDisplaySettings
\* ---------------------------------------------------------------------------
\* a loop that takes the first record whatever its name
MatchingKeysAny(keys, m, deviceName) == keys

\* the keys, in map order, of the records named deviceName
RECURSIVE MatchingKeys(_, _, _)
MatchingKeys(keys, m, deviceName) ==
  IF keys = << >> THEN << >>
  ELSE (IF m[Head(keys)].name = deviceName THEN <<Head(keys)>> ELSE << >>)
         \o MatchingKeys(Tail(keys), m, deviceName)

\* a loop that goes on to the last record with the name
LastMatch(found) == found[Len(found)]

\* the loop returns inside the first record whose name is deviceName
FirstMatch(found) == Head(found)

\* the body of changeDisplaySettings, entered as op
ChangeSettings(t, op) ==
  /\ Enter(t)
  /\ \E deviceName \in Names, mode \in Modes : \E edid \in ModeEdids[mode] :
       LET found == MatchingKeys(MapOrder(virtual_displays), virtual_displays, deviceName) IN
       IF found = << >>
         THEN /\ last' = [Locked(op, t) EXCEPT
                            !.arg = deviceName, !.ret = 0]
              /\ UNCHANGED <<virtual_displays, open_handles, open_fds, edid_static>>
         ELSE LET k == FirstMatch(found)
                  vdinfo == virtual_displays[k]
                  calls == IF vdinfo.using_evdi /\ vdinfo.handle # NULL
                             THEN <<Call("disconnect", vdinfo.handle, 0),
                                    Call("connect", vdinfo.handle,
                                         edid_size(mode[1], mode[2]))>>
                             ELSE << >>
                  hw == ApplyCalls(open_handles, open_fds, calls, FALSE, FALSE)
              IN /\ virtual_displays' =
                      [virtual_displays EXCEPT ![k] =
                         [vdinfo EXCEPT !.width = mode[1], !.height = mode[2],
                                        !.fps = mode[3]]]
                 /\ open_handles' = hw.open
                 /\ open_fds' = hw.fds
                 /\ edid_static' = IF calls # << >> THEN EdidWritten(edid_static, edid)
                                    ELSE edid_static
                 /\ last' = [Locked(op, t) EXCEPT
                            !.arg = deviceName, !.ret = 0,
                               !.calls = calls, !.misuse = hw.misuse, !.fdMisuse = hw.fdMisuse]
  /\ UNCHANGED <<failCb_calls, driver_status, evdi_available, evdi, watchdog_running,
                 watchdog_thread, vdisplay_mutex, pc>>

ChangeDisplaySettings(t) == ChangeSettings(t, "changeDisplaySettings")

\* changeDisplaySettings2: bApplyIsolated is only logged, then
\* return changeDisplaySettings(deviceName, width, height, refresh_rate)
ChangeDisplaySettings2(t) ==
  \E bApplyIsolated \in BOOLEAN : ChangeSettings(t, "changeDisplaySettings2")

\* ---------------------------------------------------------------------------
\* isEvdiDisplay
\* ---------------------------------------------------------------------------
\* if (!evdi_available) return false;  -- read before the mutex is taken
IsEvdiRead(t) ==
  /\ pc[t] = "idle"
  /\ pc' = [pc EXCEPT ![t] = IF evdi_available THEN "isEvdiDisplay_lock" ELSE "idle"]
  /\ last' = [Blank("isEvdiDisplay_read", t) EXCEPT
                !.touch = TRUE, !.ret = IF evdi_available THEN << >> ELSE FALSE]
  /\ UNCHANGED <<failCb_calls, driver_status, evdi_available, evdi, watchdog_running,
                 watchdog_thread, virtual_displays, vdisplay_mutex,
                 open_handles, open_fds>>
  /\ UNCHANGED edid_static

\* the lock_guard and the loop of isEvdiDisplay
IsEvdiDisplay(t) ==
  /\ pc[t] = "isEvdiDisplay_lock"
  /\ vdisplay_mutex = NoThread
  /\ \E displayName \in Names :
       last' = [Locked("isEvdiDisplay", t) EXCEPT
                  !.arg = displayName,
                  !.ret = \E k \in DOMAIN virtual_displays :
                            /\ virtual_displays[k].name = displayName
                            /\ virtual_displays[k].using_evdi]
  /\ pc' = [pc EXCEPT ![t] = "idle"]
  /\ UNCHANGED <<failCb_calls, driver_status, evdi_available, evdi, watchdog_running,
                 watchdog_thread, virtual_displays, vdisplay_mutex,
                 open_handles, open_fds>>
  /\ UNCHANGED edid_static

\* ---------------------------------------------------------------------------
\* getEvdiCardIndex
\* ---------------------------------------------------------------------------
\* a test that stops at the first record with the name
CardOfName(v, displayName) == v.name = displayName

\* if (vdinfo.name == displayName && vdinfo.using_evdi)
CardOfDisplay(v, displayName) == v.name = displayName /\ v.using_evdi

\* the loop of getEvdiCardIndex over the records in map order
RECURSIVE CardIndex(_, _, _)
CardIndex(keys, m, displayName) ==
  IF keys = << >> THEN -1
  ELSE IF CardOfDisplay(m[Head(keys)], displayName)
    THEN m[Head(keys)].device_index
  ELSE CardIndex(Tail(keys), m, displayName)

GetEvdiCardIndex(t) ==
  /\ Enter(t)
  /\ \E displayName \in Names :
       last' = [Locked("getEvdiCardIndex", t) EXCEPT
                  !.arg = displayName,
                  !.ret = CardIndex(MapOrder(virtual_displays), virtual_displays,
                                    displayName)]
  /\ UNCHANGED <<driver_status, evdi_available, evdi, watchdog_running, watchdog_thread,
                 failCb_calls, virtual_displays, vdisplay_mutex, pc, open_handles,
                 open_fds>>
  /\ UNCHANGED edid_static

\* ---------------------------------------------------------------------------
\* matchDisplay
\* ---------------------------------------------------------------------------
\* patterns a caller may pass: the empty one, an inner part of the display
\* names and one that no name contains
MatchPatterns == {EmptyString, <<"L", "-", "a">>, <<"x">>}

\* a find that looks at the start of the name only
FindAtStart(name, sMatch) ==
  Len(sMatch) <= Len(name) /\ SubSeq(name, 1, Len(sMatch)) = sMatch

\* name.find(sMatch) != std::string::npos
Find(name, sMatch) ==
  \E pos \in 0..(Len(name) - Len(sMatch)) :
    SubSeq(name, pos + 1, pos + Len(sMatch)) = sMatch

\* the loop of matchDisplay: push_back(vdinfo.name) in map order
RECURSIVE Matches(_, _, _)
Matches(keys, m, sMatch) ==
  IF keys = << >> THEN << >>
  ELSE (IF m[Head(keys)].active /\ Find(m[Head(keys)].name, sMatch)
          THEN <<m[Head(keys)].name>> ELSE << >>)
         \o Matches(Tail(keys), m, sMatch)

MatchDisplay(t) ==
  /\ Enter(t)
  /\ \E sMatch \in MatchPatterns :
       last' = [Locked("matchDisplay", t) EXCEPT
                  !.arg = sMatch,
                  !.ret = Matches(MapOrder(virtual_displays), virtual_displays, sMatch)]
  /\ UNCHANGED <<driver_status, evdi_available, evdi, watchdog_running, watchdog_thread,
                 failCb_calls, virtual_displays, vdisplay_mutex, pc, open_handles,
                 open_fds>>
  /\ UNCHANGED edid_static

\* ---------------------------------------------------------------------------
\* setRenderAdapterByName, setPrimaryDisplay, getDisplayHDRByName and
\* setDisplayHDRByName
\* ---------------------------------------------------------------------------
\* return true; for an empty and for a non-empty adapterName
AdapterAccepted(adapterName) == TRUE

\* takes the mutex, logs, and returns
SetRenderAdapterByName(t) ==
  /\ Enter(t)
  /\ \E adapterName \in Names \cup {EmptyString} :
       last' = [Locked("setRenderAdapterByName", t) EXCEPT
                  !.touch = FALSE, !.ret = AdapterAccepted(adapterName)]
  /\ UNCHANGED <<driver_status, evdi_available, evdi, watchdog_running, watchdog_thread,
                 failCb_calls, virtual_displays, vdisplay_mutex, pc, open_handles,
                 open_fds>>
  /\ UNCHANGED edid_static

\* the three operations below take no mutex and read no shared variable
SetPrimaryDisplay(t) ==
  /\ pc[t] = "idle"
  /\ \E primaryDeviceName \in Names :
       last' = [Blank("setPrimaryDisplay", t) EXCEPT !.ret = TRUE]
  /\ UNCHANGED <<driver_status, evdi_available, evdi, watchdog_running, watchdog_thread,
                 failCb_calls, virtual_displays, vdisplay_mutex, pc, open_handles,
                 open_fds>>
  /\ UNCHANGED edid_static

GetDisplayHDRByName(t) ==
  /\ pc[t] = "idle"
  /\ \E displayName \in Names :
       last' = [Blank("getDisplayHDRByName", t) EXCEPT !.ret = FALSE]
  /\ UNCHANGED <<driver_status, evdi_available, evdi, watchdog_running, watchdog_thread,
                 failCb_calls, virtual_displays, vdisplay_mutex, pc, open_handles,
                 open_fds>>
  /\ UNCHANGED edid_static

\* a set that succeeds when it switches HDR off
HdrSetWhenOff(displayName, enableAdvancedColor) == ~enableAdvancedColor

\* return false; whatever the display and the requested setting
HdrSet(displayName, enableAdvancedColor) == FALSE

SetDisplayHDRByName(t) ==
  /\ pc[t] = "idle"
  /\ \E displayName \in Names, enableAdvancedColor \in BOOLEAN :
       last' = [Blank("setDisplayHDRByName", t) EXCEPT
                  !.ret = HdrSet(displayName, enableAdvancedColor)]
  /\ UNCHANGED <<driver_status, evdi_available, evdi, watchdog_running, watchdog_thread,
                 failCb_calls, virtual_displays, vdisplay_mutex, pc, open_handles,
                 open_fds>>
  /\ UNCHANGED edid_static

\* ---------------------------------------------------------------------------
\* Specification
\* ---------------------------------------------------------------------------
ControlStep(t) ==
  \/ OpenDriver(t)
  \/ CloseStop(t)
  \/ CloseDriver(t)
  \/ StartPingThread(t)
  \/ CreateDisplay(t)
  \/ RemoveDisplay(t)
  \/ ChangeDisplaySettings(t)
  \/ ChangeDisplaySettings2(t)
  \/ SetRenderAdapterByName(t)

PipelineStep(t) ==
  \/ IsEvdiRead(t)
  \/ IsEvdiDisplay(t)
  \/ GetEvdiCardIndex(t)
  \/ MatchDisplay(t)
  \/ SetPrimaryDisplay(t)
  \/ GetDisplayHDRByName(t)
  \/ SetDisplayHDRByName(t)

WatchdogStep ==
  \/ WdWhile
  \/ WdWake
  \/ WdScan
  \/ WdCallbackReturn
  \/ WdCallbackBlocks

Next ==
  \/ \E t \in Control : ControlStep(t)
  \/ \E t \in Pipeline : PipelineStep(t)
  \/ WatchdogStep

Spec == Init /\ [][Next]_vars

\* the threads are scheduled: the watchdog thread keeps running, a join that
\* can return does return
\* ---------------------------------------------------------------------------
\* The synthesizer on its own: what createVirtualDisplay and
\* changeDisplaySettings do between having a handle and evdi.connect, for
\* geometries and rates over the branches of the synthesizer
\* ---------------------------------------------------------------------------
Widths == {640, 1280, 1920, 1921, 2560, 3840, 4096}
Heights == {480, 720, 1080, 1081, 1440, 2160}
Rates == {0, 30, 60, 2000}

\* edid = generate_edid_for_resolution(width, height, hz); the edid_size
\* expression; evdi.connect(handle, edid, edid_size, 0)
ConnectEdid ==
  /\ \E width \in Widths, height \in Heights, refresh_rate \in Rates, handle \in Handles :
       \E edid \in generate_edid_for_resolution(width, height, refresh_rate) :
         last' = [Blank("generate_edid_for_resolution", NoThread) EXCEPT
                    !.arg = <<width, height, refresh_rate>>,
                    !.ret = edid,
                    !.calls = <<Call("connect", handle, edid_size(width, height))>>]
         /\ edid_static' = EdidWritten(edid_static, edid)
  /\ UNCHANGED <<driver_status, evdi_available, evdi, watchdog_running, watchdog_thread,
                 failCb_calls, virtual_displays, vdisplay_mutex, pc, open_handles,
                 open_fds>>

NextEdid == ConnectEdid

SpecEdid == Init /\ [][NextEdid]_vars

FairSpec ==
  /\ Spec
  /\ WF_vars(WatchdogStep)
  /\ \A t \in Control : WF_vars(CloseDriver(t))

\* ---------------------------------------------------------------------------
\* Properties
\* ---------------------------------------------------------------------------

\* the keys of the records that hold handle h / descriptor f
HoldersOfHandle(h) ==
  {k \in DOMAIN virtual_displays :
     virtual_displays[k].using_evdi /\ virtual_displays[k].handle = h}

HoldersOfFd(f) == {k \in DOMAIN virtual_displays : virtual_displays[k].drm_fd = f}

\* C1: a closeVDisplayDevice that has begun while the watchdog thread exists
\* eventually returns, with the driver status UNKNOWN.
C1_CloseReturns ==
  \A t \in Control :
    (pc[t] = "close_join" /\ Joinable(watchdog_thread))
      ~> (pc[t] = "idle" /\ last.op = "closeVDisplayDevice" /\ driver_status = "UNKNOWN")

\* C2: every open handle and every open device-node descriptor is held by
\* exactly one record of the registry.
C2_ResourcesOwned ==
  /\ \A h \in open_handles : Cardinality(HoldersOfHandle(h)) = 1
  /\ \A f \in open_fds : Cardinality(HoldersOfFd(f)) = 1

\* C3: no call that takes a handle (get_event_ready, connect, disconnect,
\* close) is made on a handle that is not open; so no handle is closed twice.
C3_NoCallOnClosedHandle == ~last.misuse

\* a handle has just been closed by removeVirtualDisplay while the watchdog
\* waits for the mutex to scan
C3_Witness ==
  /\ last.op = "removeVirtualDisplay"
  /\ \E i \in 1..Len(last.calls) : last.calls[i][1] = "close"
  /\ watchdog_thread = "lock"

\* C4: a step that reads or writes the registry, driver_status or
\* evdi_available is taken by the thread that holds the mutex.
C4_AccessUnderLock == last.touch => last.holder = last.t

\* C5: openVDisplayDevice in a status other than OK ends in OK and returns OK;
\* evdi_available is then true exactly when the library was loaded completely
\* and the kernel module was found.
C5_OpenEndsReady ==
  (last.op = "openVDisplayDevice" /\ last.pre # "OK") =>
    /\ driver_status = "OK"
    /\ last.ret = "OK"
    /\ evdi.loaded <=> last.lib \in {"ok", "cached"}
    /\ evdi_available <=> (evdi.loaded /\ last.mod = "present")

\* the library was loaded, the kernel module is absent
C5_Witness ==
  /\ last.op = "openVDisplayDevice"
  /\ last.pre = "UNKNOWN"
  /\ last.lib = "ok"
  /\ last.mod = "absent"
  /\ ~evdi_available

\* C6: openVDisplayDevice in status OK returns OK, loads no library, checks no
\* kernel module and leaves the binding, evdi_available and the registry as
\* they are.
C6_OpenIdempotent ==
  [][(last'.op = "openVDisplayDevice" /\ driver_status = "OK") =>
       /\ last'.ret = "OK"
       /\ last'.lib = "none"
       /\ last'.mod = "none"
       /\ driver_status' = "OK"
       /\ evdi' = evdi
       /\ evdi_available' = evdi_available
       /\ virtual_displays' = virtual_displays]_vars

\* a second open, with the library loaded and a display registered
C6_Witness ==
  /\ last.op = "openVDisplayDevice"
  /\ last.pre = "OK"
  /\ evdi.loaded
  /\ virtual_displays # EmptyMap

\* C7: createVirtualDisplay returns "" exactly when the status was not OK, and
\* then changes no record and makes no call; otherwise it returns the non-empty
\* name derived from the GUID and the registry has a record under the GUID.
C7_CreateResult ==
  /\ [](last.op = "createVirtualDisplay" =>
          /\ (last.ret = EmptyString) <=> (last.pre # "OK")
          /\ last.pre # "OK" => last.calls = << >>
          /\ last.pre = "OK" =>
               /\ last.ret # EmptyString
               /\ last.ret = generate_display_name(last.arg)
               /\ last.arg \in DOMAIN virtual_displays
               /\ virtual_displays[last.arg].guid_str = last.arg
               /\ virtual_displays[last.arg].name = last.ret)
  /\ [][(last'.op = "createVirtualDisplay" /\ driver_status # "OK") =>
          /\ virtual_displays' = virtual_displays
          /\ open_handles' = open_handles
          /\ open_fds' = open_fds]_vars

\* a create refused after a close that left evdi_available set
C7_Witness ==
  /\ last.op = "createVirtualDisplay"
  /\ last.pre = "UNKNOWN"
  /\ last.ret = EmptyString
  /\ evdi_available

\* C8: with evdi_available false, createVirtualDisplay in status OK makes no
\* call, opens no device node, returns a non-empty name and registers a
\* passthrough record.
C8_PassthroughCreate ==
  (last.op = "createVirtualDisplay" /\ last.pre = "OK" /\ ~evdi_available) =>
    /\ last.ret # EmptyString
    /\ last.calls = << >>
    /\ last.arg \in DOMAIN virtual_displays
    /\ ~virtual_displays[last.arg].using_evdi
    /\ virtual_displays[last.arg].handle = NULL
    /\ virtual_displays[last.arg].device_index = -1
    /\ virtual_displays[last.arg].drm_fd = -1

\* a passthrough create with the library loaded and the kernel module absent
C8_Witness ==
  /\ last.op = "createVirtualDisplay"
  /\ last.pre = "OK"
  /\ ~evdi_available
  /\ evdi.loaded
  /\ last.arg \in DOMAIN virtual_displays

\* C9: a record with using_evdi has a non-null handle and a device index >= 0;
\* a record without has a null handle, device index -1 and descriptor -1.
C9_RecordShape ==
  \A v \in Records :
    /\ v.using_evdi => (v.handle # NULL /\ v.device_index >= 0)
    /\ ~v.using_evdi => (v.handle = NULL /\ v.device_index = -1 /\ v.drm_fd = -1)

\* the registry holds a hardware-backed record and a passthrough record
C9_Witness ==
  /\ \E v \in Records : v.using_evdi
  /\ \E v \in Records : ~v.using_evdi

\* C10: a createVirtualDisplay in status OK with a GUID that is not in the
\* registry adds exactly the record of that GUID (N records become N+1, from
\* the empty registry N creates with distinct GUIDs give N records); a
\* removeVirtualDisplay of a GUID in the registry removes exactly that record
\* (N become N-1); the other records stay as they are.
C10_RegistryCount ==
  [][/\ (last'.op = "createVirtualDisplay" /\ driver_status = "OK"
           /\ last'.arg \notin DOMAIN virtual_displays) =>
          /\ DOMAIN virtual_displays' = DOMAIN virtual_displays \cup {last'.arg}
          /\ Cardinality(DOMAIN virtual_displays') =
               Cardinality(DOMAIN virtual_displays) + 1
          /\ \A k \in DOMAIN virtual_displays : virtual_displays'[k] = virtual_displays[k]
     /\ (last'.op = "removeVirtualDisplay" /\ last'.arg \in DOMAIN virtual_displays) =>
          /\ DOMAIN virtual_displays' = DOMAIN virtual_displays \ {last'.arg}
          /\ Cardinality(DOMAIN virtual_displays') =
               Cardinality(DOMAIN virtual_displays) - 1
          /\ \A k \in DOMAIN virtual_displays' : virtual_displays'[k] = virtual_displays[k]
    ]_vars

\* one of two registered displays has just been removed
C10_Witness ==
  /\ last.op = "removeVirtualDisplay"
  /\ last.ret = TRUE
  /\ Cardinality(DOMAIN virtual_displays) = 1

\* the operations that reconfigure a display
ChangeOps == {"changeDisplaySettings", "changeDisplaySettings2"}

\* C11: removeVirtualDisplay of a GUID that is not a key of the registry
\* returns false, leaves the registry as it is, makes no call through the
\* function table and closes no descriptor.
C11_RemoveUnknown ==
  [][(last'.op = "removeVirtualDisplay" /\ last'.arg \notin DOMAIN virtual_displays) =>
       /\ last'.ret = FALSE
       /\ last'.calls = << >>
       /\ virtual_displays' = virtual_displays
       /\ open_handles' = open_handles
       /\ open_fds' = open_fds]_vars

\* a remove of an unknown GUID while the registry holds a hardware-backed record
C11_Witness ==
  /\ last.op = "removeVirtualDisplay"
  /\ last.ret = FALSE
  /\ last.arg \notin DOMAIN virtual_displays
  /\ \E v \in Records : v.using_evdi

\* C12: changeDisplaySettings and changeDisplaySettings2 return 0 for every
\* input; with a name that no record has they leave the registry as it is
\* and make no call.
C12_ReconfigureUnknown ==
  /\ [](last.op \in ChangeOps => last.ret = 0)
  /\ [][(last'.op \in ChangeOps
          /\ \A k \in DOMAIN virtual_displays : virtual_displays[k].name # last'.arg) =>
          /\ last'.calls = << >>
          /\ virtual_displays' = virtual_displays
          /\ open_handles' = open_handles
          /\ open_fds' = open_fds]_vars

\* a reconfiguration through changeDisplaySettings2 with a name no record
\* has, while the registry holds a hardware-backed record
C12_Witness ==
  /\ last.op = "changeDisplaySettings2"
  /\ last.ret = 0
  /\ \A v \in Records : v.name # last.arg
  /\ \E v \in Records : v.using_evdi

\* the answers below zero among the get_event_ready calls of the last step
LostAnswers ==
  {i \in 1..Len(last.calls) :
     last.calls[i][1] = "get_event_ready" /\ last.calls[i][3] < 0}

CallsOf(calls, fn, arg) ==
  {i \in 1..Len(calls) : calls[i][1] = fn /\ calls[i][2] = arg}

\* calls are the clean-up calls of closeVDisplayDevice for the records before
CloseCallsFor(before, calls) ==
  /\ \A v \in before :
       /\ (v.using_evdi /\ v.handle # NULL) =>
            \E i \in CallsOf(calls, "disconnect", v.handle),
               j \in CallsOf(calls, "close", v.handle) :
              /\ i < j
              /\ CallsOf(calls, "disconnect", v.handle) = {i}
              /\ CallsOf(calls, "close", v.handle) = {j}
       /\ v.drm_fd >= 0 => Cardinality(CallsOf(calls, "::close", v.drm_fd)) = 1
  /\ \A i \in 1..Len(calls) :
       \E v \in before :
         \/ calls[i][1] \in {"disconnect", "close"}
              /\ v.using_evdi /\ calls[i][2] = v.handle
         \/ calls[i][1] = "::close" /\ calls[i][2] = v.drm_fd

\* C14: closeVDisplayDevice runs its clean-up with the watchdog stopped and
\* its thread joined; it disconnects, then closes, the handle of every
\* hardware-backed record and closes its descriptor; it ends with an empty
\* registry, the library unloaded and status UNKNOWN, and no handle is
\* still open when the library is unloaded.
C14_CloseSequence ==
  [][last'.op = "closeVDisplayDevice" =>
       /\ ~watchdog_running
       /\ watchdog_thread \in {"none", "exited"}
       /\ watchdog_thread' = "none"
       /\ CloseCallsFor(Records, last'.calls)
       /\ virtual_displays' = EmptyMap
       /\ evdi' = [lib_handle |-> FALSE, loaded |-> FALSE]
       /\ driver_status' = "UNKNOWN"
       /\ open_handles' = {}]_vars

\* C15: startPingThread returns true on every call; it creates a thread only
\* when watchdog_running is false, and then no earlier thread is left; when
\* watchdog_running is true it leaves the thread as it is.
C15_SingleWatchdog ==
  [][last'.op = "startPingThread" =>
       /\ last'.ret = TRUE
       /\ watchdog_running'
       /\ watchdog_running =>
            watchdog_thread' = watchdog_thread /\ failCb_calls' = failCb_calls
       /\ ~watchdog_running =>
            ~Joinable(watchdog_thread) /\ watchdog_thread' = "while"]_vars

\* a start while the flag is set and the thread function has already
\* returned: no thread is created
C15_Witness ==
  /\ last.op = "startPingThread"
  /\ last.ret = TRUE
  /\ watchdog_running
  /\ watchdog_thread = "exited"

\* the step synthesized an EDID
Synthesized == last.op = "generate_edid_for_resolution"

\* C16: in every synthesized buffer the bytes 0..127 sum to 0 modulo 256,
\* the bytes 128..255 sum to 0 modulo 256 when width > 1920 or height > 1080,
\* and both checksum bytes are 8-bit values.
C16_ChecksumZero ==
  Synthesized =>
    /\ \A i \in 0..255 : last.ret[i] \in 0..255
    /\ SumBytes(last.ret, 0, 128, 0) = 0
    /\ (last.arg[1] > 1920 \/ last.arg[2] > 1080) => SumBytes(last.ret, 128, 128, 0) = 0

\* a buffer with an extension block whose two checksum bytes are not zero
C16_Witness ==
  /\ Synthesized
  /\ last.arg[1] <= 1920 /\ last.arg[2] > 1080
  /\ last.ret[128] = 2
  /\ last.ret[127] # 0
  /\ last.ret[255] # 0

NoSlotFound ==
  \A i \in 1..Len(last.calls) :
    /\ last.calls[i][1] = "check_device" => last.calls[i][3] # "AVAILABLE"
    /\ last.calls[i][1] = "add_device" => last.calls[i][3] < 0

\* evdi.open was called in the last step and returned nullptr
OpenFailed ==
  \E i \in 1..Len(last.calls) : last.calls[i][1] = "open" /\ last.calls[i][3] = NULL

\* C18: a createVirtualDisplay in hardware mode that finds no device, or
\* whose evdi.open fails, returns the display name and stores a passthrough
\* record without opening a device node, and evdi_available stays set.
C18_FallbackToPassthrough ==
  /\ [](( /\ last.op = "createVirtualDisplay"
          /\ last.pre = "OK"
          /\ last.calls # << >>
          /\ NoSlotFound \/ OpenFailed ) =>
        /\ last.ret = VirtualTag \o SubSeq(last.arg, 1, 8)
        /\ last.arg \in DOMAIN virtual_displays
        /\ LET v == virtual_displays[last.arg]
           IN /\ v.active
              /\ ~v.using_evdi
              /\ v.handle = NULL
              /\ v.device_index = -1
              /\ v.drm_fd = -1
        /\ \A i \in 1..Len(last.calls) : last.calls[i][1] \notin {"connect", "::open"}
        /\ NoSlotFound => \A i \in 1..Len(last.calls) : last.calls[i][1] # "open"
        /\ evdi_available)
  /\ [][last'.op = "createVirtualDisplay" => evdi_available' = evdi_available]_vars

\* a create whose evdi.open returned nullptr after a slot was found
C18_Witness ==
  /\ last.op = "createVirtualDisplay"
  /\ OpenFailed
  /\ ~NoSlotFound
  /\ evdi_available
  /\ ~virtual_displays[last.arg].using_evdi

\* the first 8 characters of a GUID string
FirstGroup(guid_str) == [i \in 1..8 |-> guid_str[i]]

\* C19: the name returned by a successful createVirtualDisplay, and stored
\* in the record, is "VIRTUAL-" followed by the first 8 characters of the
\* GUID string; records whose GUIDs agree on these 8 characters have the
\* same name, whatever their geometry and whether hardware-backed or not.
C19_NameFromGuid ==
  /\ (last.op = "createVirtualDisplay" /\ last.ret # EmptyString) =>
       /\ Len(last.ret) = 16
       /\ \A i \in 1..8 : last.ret[i] = VirtualTag[i] /\ last.ret[8 + i] = last.arg[i]
       /\ virtual_displays[last.arg].name = last.ret
  /\ \A v \in Records :
       /\ Len(v.name) = 16
       /\ \A i \in 1..8 : v.name[i] = VirtualTag[i] /\ v.name[8 + i] = v.guid_str[i]
  /\ \A v, w \in Records :
       FirstGroup(v.guid_str) = FirstGroup(w.guid_str) => v.name = w.name

\* two records with different GUIDs, different geometry and different
\* backing that have the same name
C19_Witness ==
  /\ last.op = "createVirtualDisplay"
  /\ \E v, w \in Records :
       /\ v.guid_str # w.guid_str
       /\ v.name = w.name
       /\ v.width # w.width
       /\ v.using_evdi /\ ~w.using_evdi

\* C20: setRenderAdapterByName and setPrimaryDisplay return true,
\* getDisplayHDRByName and setDisplayHDRByName return false, for every
\* argument and in every state, and they leave the driver status,
\* evdi_available, the registry and everything else of the driver as it is.
C20_InertOperations ==
  [][/\ last'.op \in {"setRenderAdapterByName", "setPrimaryDisplay"} => last'.ret = TRUE
     /\ last'.op \in {"getDisplayHDRByName", "setDisplayHDRByName"} => last'.ret = FALSE
     /\ last'.op \in {"setRenderAdapterByName", "setPrimaryDisplay",
                      "getDisplayHDRByName", "setDisplayHDRByName"} =>
          /\ driver_status' = driver_status
          /\ evdi_available' = evdi_available
          /\ virtual_displays' = virtual_displays
          /\ evdi' = evdi
          /\ watchdog_running' = watchdog_running
          /\ watchdog_thread' = watchdog_thread
          /\ open_handles' = open_handles
          /\ open_fds' = open_fds
          /\ last'.calls = << >>]_vars

\* setDisplayHDRByName on an open driver with a hardware-backed record,
\* called while the watchdog holds the mutex in failCb
C20_Witness ==
  /\ last.op = "setDisplayHDRByName"
  /\ last.ret = FALSE
  /\ driver_status = "OK"
  /\ vdisplay_mutex = WD
  /\ \E v \in Records : v.using_evdi

\* the positions of the check_device calls among the calls of the last step
SlotChecks == {i \in 1..Len(last.calls) : last.calls[i][1] = "check_device"}

\* the slot at which the scan of the last step stopped
LastSlot ==
  last.calls[CHOOSE i \in SlotChecks : \A j \in SlotChecks : j <= i][2]

\* C21: a createVirtualDisplay in hardware mode checks the slots 0, 1, 2, ...
\* in this order and stops at the first that is AVAILABLE or that is
\* NOT_PRESENT and followed by a successful add_device; the device given to
\* evdi.open, stored in the record and opened as device node is the index of
\* that slot, hence in 0..15.
C21_SlotIndex ==
  (last.op = "createVirtualDisplay" /\ SlotChecks # {}) =>
    /\ \A i \in SlotChecks : last.calls[i][2] = Cardinality({j \in SlotChecks : j < i})
    /\ \A i \in SlotChecks :
         last.calls[i][2] # LastSlot =>
           /\ last.calls[i][3] # "AVAILABLE"
           /\ last.calls[i][3] = "NOT_PRESENT" =>
                last.calls[i + 1][1] = "add_device" /\ last.calls[i + 1][3] < 0
    /\ \A i \in 1..Len(last.calls) :
         last.calls[i][1] \in {"open", "::open"} =>
           last.calls[i][2] = LastSlot /\ last.calls[i][2] \in SlotRange
    /\ virtual_displays[last.arg].using_evdi =>
         virtual_displays[last.arg].device_index = LastSlot

\* C22: removeVirtualDisplay of a GUID that is a key of the registry returns
\* true and erases that record only; for a hardware-backed record it calls
\* disconnect and then close on its handle, once each, and ::close on its
\* descriptor only when that is >= 0; for a passthrough record it makes no
\* call.
C22_RemoveKnown ==
  [][(last'.op = "removeVirtualDisplay" /\ last'.arg \in DOMAIN virtual_displays) =>
       LET v == virtual_displays[last'.arg] IN
       /\ last'.ret = TRUE
       /\ DOMAIN virtual_displays' = DOMAIN virtual_displays \ {last'.arg}
       /\ \A k \in DOMAIN virtual_displays' : virtual_displays'[k] = virtual_displays[k]
       /\ last'.calls =
            (IF v.using_evdi
               THEN << <<"disconnect", v.handle, 0>>, <<"close", v.handle, 0>> >>
               ELSE << >>)
            \o (IF v.drm_fd >= 0 THEN << <<"::close", v.drm_fd, 0>> >> ELSE << >>)
       /\ open_handles' = open_handles \ (IF v.using_evdi THEN {v.handle} ELSE {})
       /\ open_fds' = open_fds \ {v.drm_fd}]_vars

\* a hardware-backed record with a descriptor has been removed and another
\* record is still in the registry
C22_Witness ==
  /\ last.op = "removeVirtualDisplay"
  /\ last.ret = TRUE
  /\ Len(last.calls) = 3
  /\ last.calls[3][1] = "::close"
  /\ virtual_displays # EmptyMap

\* the keys of the records named name, before the step
KeysNamed(name) == {k \in DOMAIN virtual_displays : virtual_displays[k].name = name}

\* C23: changeDisplaySettings with a name that some record has writes width,
\* height and fps of the first such record in key order and nothing else in
\* the registry; for a hardware-backed record it calls disconnect and then
\* connect on the record's handle with the length that follows the new
\* width and height; for a passthrough record it makes no call.
C23_ReconfigureKnown ==
  [][(last'.op \in ChangeOps /\ KeysNamed(last'.arg) # {}) =>
       LET k == CHOOSE x \in KeysNamed(last'.arg) :
                  \A y \in KeysNamed(last'.arg) : x = y \/ StrLess(x, y)
           v == virtual_displays[k]
           w == virtual_displays'[k]
       IN /\ DOMAIN virtual_displays' = DOMAIN virtual_displays
          /\ \A x \in DOMAIN virtual_displays \ {k} :
               virtual_displays'[x] = virtual_displays[x]
          /\ <<w.width, w.height, w.fps>> \in Modes
          /\ w = [v EXCEPT !.width = w.width, !.height = w.height, !.fps = w.fps]
          /\ last'.calls =
               IF v.using_evdi
                 THEN << <<"disconnect", v.handle, 0>>,
                         <<"connect", v.handle,
                           IF w.width > 1920 \/ w.height > 1080 THEN 256 ELSE 128>> >>
                 ELSE << >>
          /\ open_handles' = open_handles
          /\ open_fds' = open_fds]_vars

\* two records have the same name; the first, hardware-backed, has been
\* given a 256-byte EDID and the second still has the other geometry
C23_Witness ==
  /\ last.op = "changeDisplaySettings"
  /\ Len(last.calls) = 2
  /\ last.calls[2][3] = 256
  /\ GuidA \in DOMAIN virtual_displays /\ GuidB \in DOMAIN virtual_displays
  /\ virtual_displays[GuidA].width = 3840
  /\ virtual_displays[GuidB].width = 1920

\* C24: driver_status is always UNKNOWN or OK; it goes from UNKNOWN to OK in
\* openVDisplayDevice only and to UNKNOWN in closeVDisplayDevice only; no step
\* of the watchdog thread, the scan that finds a lost display included,
\* changes driver_status, the registry or evdi_available: the loss leaves the
\* thread as the call of failCb, when there is one, and nothing else.
C24_DriverStates ==
  [][/\ driver_status \in {"UNKNOWN", "OK"}
     /\ driver_status' \in {"UNKNOWN", "OK"}
     /\ driver_status' # driver_status =>
          \/ driver_status' = "OK" /\ last'.op = "openVDisplayDevice"
          \/ driver_status' = "UNKNOWN" /\ last'.op = "closeVDisplayDevice"
     /\ last'.t = WD =>
          /\ UNCHANGED <<driver_status, virtual_displays, evdi_available>>
          /\ failCb_calls' # failCb_calls =>
               last'.op = "wd_scan" /\ last'.cb = "called"]_vars

\* the watchdog has found a lost display of a ready driver in hardware mode
\* and has called failCb
C24_Witness ==
  /\ last.op = "wd_scan"
  /\ last.ret = TRUE
  /\ last.cb = "called"
  /\ driver_status = "OK"
  /\ evdi_available
  /\ virtual_displays # EmptyMap

\* p occurs in name at some position
Contains(name, p) ==
  \E i \in 1..(Len(name) + 1) :
    \A j \in 1..Len(p) : i + j - 1 <= Len(name) /\ name[i + j - 1] = p[j]

\* the keys, in key order, of the active records whose name contains p
KeysContaining(p) ==
  SelectSeq(KeyOrder, LAMBDA k : /\ k \in DOMAIN virtual_displays
                                 /\ virtual_displays[k].active
                                 /\ Contains(virtual_displays[k].name, p))

\* C27: matchDisplay(sMatch) returns the names of the active records whose
\* name contains sMatch, one entry for each such record in key order, so
\* that a name of two records is returned twice; it changes neither the
\* registry nor driver_status.
C27_MatchDisplay ==
  [][last'.op = "matchDisplay" =>
       LET ks == KeysContaining(last'.arg)
       IN /\ Len(last'.ret) = Len(ks)
          /\ \A i \in 1..Len(ks) : last'.ret[i] = virtual_displays[ks[i]].name
          /\ UNCHANGED <<virtual_displays, driver_status>>
          /\ last'.calls = << >>]_vars

\* an inner part of the name was asked for and the name of the two records
\* came back twice
C27_Witness ==
  /\ last.op = "matchDisplay"
  /\ last.arg = <<"L", "-", "a">>
  /\ Len(last.ret) = 2
  /\ last.ret[1] = last.ret[2]

\* the operations that look a record up
LookupOps == {"removeVirtualDisplay", "changeDisplaySettings", "changeDisplaySettings2",
              "matchDisplay", "isEvdiDisplay", "getEvdiCardIndex"}

\* C25: while driver_status is not OK the registry is empty; a
\* removeVirtualDisplay, changeDisplaySettings, matchDisplay, isEvdiDisplay
\* or getEvdiCardIndex that ran while driver_status was not OK has found no
\* record, has made no call of the function table or of ::close and has
\* left the registry empty.
C25_EmptyUnlessReady ==
  /\ driver_status # "OK" => virtual_displays = EmptyMap
  /\ (last.op \in LookupOps /\ last.pre # "OK") =>
       /\ virtual_displays = EmptyMap
       /\ last.calls = << >>
       /\ last.op = "removeVirtualDisplay" => last.ret = FALSE
       /\ last.op = "matchDisplay" => last.ret = << >>
       /\ last.op = "isEvdiDisplay" => last.ret = FALSE
       /\ last.op = "getEvdiCardIndex" => last.ret = -1

\* getEvdiCardIndex ran after a close that had left evdi_available set
C25_Witness ==
  /\ last.op = "getEvdiCardIndex"
  /\ last.pre = "UNKNOWN"
  /\ evdi_available
  /\ open_fds = {}

\* C26: an openVDisplayDevice whose load_evdi_library finds the library but
\* not one of its symbols calls dlclose and leaves lib_handle null and loaded
\* false; it ends with evdi_available false and driver_status OK, and while
\* the driver is OK with evdi_available false no step calls a function of
\* the table.
C26_MissingSymbol ==
  /\ (last.op = "openVDisplayDevice" /\ last.lib = "nosym") =>
       /\ last.dlclose
       /\ evdi = [lib_handle |-> FALSE, loaded |-> FALSE]
       /\ ~evdi_available
       /\ driver_status = "OK"
       /\ last.mod = "none"
  /\ (driver_status = "OK" /\ ~evdi_available) => last.calls = << >>

\* an open has just found a symbol missing, has closed the library and has
\* left the driver ready in passthrough mode
C26_Witness ==
  /\ last.op = "openVDisplayDevice"
  /\ last.lib = "nosym"
  /\ last.dlclose
  /\ driver_status = "OK"

\* the steps of the watchdog thread outside its scan
SleepOps == {"wd_while", "wd_wake"}

\* C28: a scan of the watchdog calls get_event_ready only with the handle
\* of a record that is active, hardware-backed and has a non-null handle;
\* the scan starts by taking the free mutex and is made by the holder of the
\* mutex, while the loop test and the sleep are made without it; a scan of a
\* registry without hardware-backed records makes no call and does not call
\* failCb.
C28_WatchdogScan ==
  [][/\ last'.op = "wd_scan" =>
          /\ vdisplay_mutex = NoThread
          /\ last'.holder = WD
          /\ last'.touch
          /\ \A i \in 1..Len(last'.calls) :
               /\ last'.calls[i][1] = "get_event_ready"
               /\ \E k \in DOMAIN virtual_displays :
                    /\ virtual_displays[k].active
                    /\ virtual_displays[k].using_evdi
                    /\ virtual_displays[k].handle # NULL
                    /\ virtual_displays[k].handle = last'.calls[i][2]
          /\ (\A k \in DOMAIN virtual_displays : ~virtual_displays[k].using_evdi) =>
               /\ last'.calls = << >>
               /\ last'.cb = "none"
               /\ failCb_calls' = failCb_calls
               /\ watchdog_thread' = "while"
     /\ last'.op \in SleepOps =>
          /\ vdisplay_mutex # WD /\ vdisplay_mutex' # WD
          /\ last'.holder # WD
          /\ ~last'.touch
          /\ last'.calls = << >>]_vars

\* a scan of a registry with a passthrough record and a hardware-backed one
\* has asked for the hardware-backed one only
C28_Witness ==
  /\ last.op = "wd_scan"
  /\ Len(last.calls) = 1
  /\ \E k \in DOMAIN virtual_displays : ~virtual_displays[k].using_evdi
  /\ \E k \in DOMAIN virtual_displays : virtual_displays[k].using_evdi

\* the functions of the table that the operations call
TableFunctions == {"check_device", "add_device", "open", "connect", "disconnect",
                   "close", "get_event_ready"}

\* C29: a step that calls a function of the table starts with evdi.loaded
\* true, although closeVDisplayDevice unloads the library and leaves
\* evdi_available as it was.
C29_NoCallUnloaded ==
  [][/\ (\E i \in 1..Len(last'.calls) : last'.calls[i][1] \in TableFunctions) =>
          evdi.loaded /\ evdi.lib_handle
     /\ last'.op = "closeVDisplayDevice" =>
          /\ evdi' = [lib_handle |-> FALSE, loaded |-> FALSE]
          /\ evdi_available' = evdi_available]_vars

\* a display was asked for after a close that had unloaded the library
\* and had left evdi_available true; no function was called
C29_Witness ==
  /\ last.op = "createVirtualDisplay"
  /\ evdi_available
  /\ ~evdi.loaded
  /\ last.calls = << >>

\* the operations that begin with the lock_guard of vdisplay_mutex, and the
\* locked part of isEvdiDisplay
LockOps == {"openVDisplayDevice", "close_stop", "closeVDisplayDevice",
            "startPingThread", "createVirtualDisplay", "removeVirtualDisplay",
            "changeDisplaySettings", "changeDisplaySettings2", "matchDisplay",
            "isEvdiDisplay", "getEvdiCardIndex"}

\* C30: the watchdog thread holds the mutex from its call of failCb to the
\* return of failCb: in between no operation that begins with the
\* lock_guard is run by any caller, and the registry and driver_status stay
\* as they are; a failCb that has called such an operation stays in that
\* call with the mutex held.
C30_CallbackUnderLock ==
  [][/\ watchdog_thread \in InCallback =>
          /\ vdisplay_mutex = WD
          /\ last'.op \notin LockOps
          /\ UNCHANGED <<virtual_displays, driver_status>>
     /\ watchdog_thread = "failCb_lock" =>
          watchdog_thread' = "failCb_lock" /\ vdisplay_mutex' = WD]_vars

\* a caller has made a step without the mutex while failCb waits for the
\* mutex that its own thread holds
C30_Witness ==
  /\ watchdog_thread = "failCb_lock"
  /\ vdisplay_mutex = WD
  /\ last.t \in Callers

\* the watchdog thread has just returned because of a lost display
EndedOnLoss ==
  \/ last.op = "wd_return"
  \/ last.op = "wd_scan" /\ last.ret = TRUE /\ last.cb = "null"

\* C31: when the thread function has returned because of a lost display,
\* watchdog_running is still true; from then on, as long as no
\* closeVDisplayDevice has cleared the flag, startPingThread returns true
\* and creates no thread, no step of a watchdog thread is taken and
\* get_event_ready is not called.
C31_NoRestartAfterLoss ==
  /\ [](EndedOnLoss => watchdog_running /\ watchdog_thread = "exited")
  /\ [][(watchdog_thread = "exited" /\ watchdog_running) =>
          /\ last'.t # WD
          /\ \A i \in 1..Len(last'.calls) : last'.calls[i][1] # "get_event_ready"
          /\ watchdog_thread' = "exited"
          /\ ~watchdog_running' => last'.op = "close_stop"
          /\ last'.op = "startPingThread" =>
               /\ last'.ret = TRUE
               /\ watchdog_running'
               /\ failCb_calls' = failCb_calls]_vars

\* startPingThread was called after the watchdog had returned from failCb
\* on a lost display, with a hardware-backed record still in the registry
C31_Witness ==
  /\ last.op = "startPingThread"
  /\ watchdog_thread = "exited"
  /\ watchdog_running
  /\ failCb_calls = 1
  /\ \E v \in Records : Polled(v)

\* the keys of the hardware-backed records named name
HardwareKeysNamed(name) ==
  {k \in DOMAIN virtual_displays :
     virtual_displays[k].name = name /\ virtual_displays[k].using_evdi}

\* what getEvdiCardIndex(name) is to return in this state
SlotOf(name) ==
  IF HardwareKeysNamed(name) = {} THEN -1
  ELSE virtual_displays[CHOOSE k \in HardwareKeysNamed(name) :
                          \A j \in HardwareKeysNamed(name) : j = k \/ StrLess(k, j)].device_index

\* what isEvdiDisplay(name) returns in this state
IsHardwareBacked(name) ==
  IF ~evdi_available THEN FALSE ELSE HardwareKeysNamed(name) # {}

\* the two lookups
CardLookups == {"isEvdiDisplay_read", "isEvdiDisplay", "getEvdiCardIndex"}

\* C32: for every display name isEvdiDisplay is true exactly when
\* getEvdiCardIndex is not -1; getEvdiCardIndex returns -1 when no
\* hardware-backed record has the name and otherwise the device_index of
\* the first hardware-backed record with the name in key order; neither
\* lookup changes the state.
C32_LookupsAgree ==
  /\ [](/\ \A name \in Names : IsHardwareBacked(name) <=> SlotOf(name) # -1
        /\ last.op = "getEvdiCardIndex" => last.ret = SlotOf(last.arg)
        /\ last.op = "isEvdiDisplay" => last.ret = (SlotOf(last.arg) # -1)
        /\ (last.op = "isEvdiDisplay_read" /\ pc[last.t] = "idle") =>
             \A name \in Names : SlotOf(name) = -1)
  /\ [][last'.op \in CardLookups =>
          UNCHANGED <<driver_status, evdi_available, evdi, watchdog_running,
                      watchdog_thread, failCb_calls, virtual_displays,
                      vdisplay_mutex, open_handles, open_fds>>]_vars

\* getEvdiCardIndex has passed over a passthrough record and has returned
\* the device_index of the hardware-backed record with the same name
C32_Witness ==
  /\ last.op = "getEvdiCardIndex"
  /\ last.ret # -1
  /\ GuidA \in DOMAIN virtual_displays
  /\ ~virtual_displays[GuidA].using_evdi
  /\ virtual_displays[GuidA].name = last.arg

\* the operations that call generate_edid_for_resolution
EdidOps == {"createVirtualDisplay", "changeDisplaySettings", "changeDisplaySettings2"}

\* the positions of the connect calls of the step
ConnectCalls(calls) == {i \in 1..Len(calls) : calls[i][1] = "connect"}

====
